---- MODULE Spec2Model ----
(***************************************************************************)
(* The spin-wheel round engine of the backend: SpinWheelService            *)
(* (createSpinWheel, joinSpinWheel, startSpinWheel, abortSpinWheel,        *)
(* eliminateNext, completeSpinWheel), the admin coin grant                 *)
(* (addCoinsToUser) and the three collections they read and write          *)
(* (spin wheels, users, transactions).                                     *)
(*                                                                         *)
(* Every service call is an async function: between two awaits other       *)
(* calls run.  A call is therefore modelled in two steps, its read(s) and  *)
(* its write(s), with the documents it read kept in the call's record.     *)
(***************************************************************************)
EXTENDS Integers, Sequences, FiniteSets, Bags, TLC

(***************************************************************************)
(* Numbers.  Pools are JavaScript Numbers (IEEE-754 binary64): the fee     *)
(* split is computed with "/" and accumulated with "+=", both rounded to   *)
(* nearest, ties to even.  A Number is kept as its 53-bit mantissa, split  *)
(* in a high part hi (26 bits, the leading bit set) and a low part lo (27  *)
(* bits), and the exponent e of its last bit:                              *)
(*     value = (hi * 2^27 + lo) * 2^e.                                     *)
(* Zero is FZero.  Only non-negative values occur.                         *)
(***************************************************************************)
MantissaBits == 53

LowBits == 27

HighBits == MantissaBits - LowBits

FZero == [e |-> 0, hi |-> 0, lo |-> 0]

\* Bit k (counted from 0 at the last bit) of the mantissa of x.
BitAt(x, k) ==
  IF k < 0 \/ k >= MantissaBits THEN 0
  ELSE IF k < LowBits THEN (x.lo \div 2^k) % 2
  ELSE (x.hi \div 2^(k - LowBits)) % 2

\* Whether one of the bits 0..k-1 of the mantissa of x is set.
LowBitsSet(x, k) ==
  IF k <= 0 THEN FALSE
  ELSE IF k <= LowBits THEN x.lo % 2^k # 0
  ELSE IF k >= MantissaBits THEN x.lo # 0 \/ x.hi # 0
  ELSE x.lo # 0 \/ x.hi % 2^(k - LowBits) # 0

\* The mantissa of x shifted right by d bits, as <<hi, lo>>.
ShiftRight(x, d) ==
  IF d = 0 THEN <<x.hi, x.lo>>
  ELSE IF d < LowBits
    THEN <<x.hi \div 2^d, (x.lo \div 2^d) + (x.hi % 2^d) * 2^(LowBits - d)>>
  ELSE IF d < MantissaBits THEN <<0, x.hi \div 2^(d - LowBits)>>
  ELSE <<0, 0>>

\* The mantissa <<hi, lo>> (53 bits) at exponent e, rounded up by one unit in
\* the last place when up.
RoundNearestEven(hi, lo, e, up) ==
  IF ~up THEN [e |-> e, hi |-> hi, lo |-> lo]
  ELSE IF lo + 1 < 2^LowBits THEN [e |-> e, hi |-> hi, lo |-> lo + 1]
  ELSE IF hi + 1 < 2^HighBits THEN [e |-> e, hi |-> hi + 1, lo |-> 0]
  ELSE [e |-> e + 1, hi |-> 2^(HighBits - 1), lo |-> 0]

\* x + y in JavaScript (round to nearest, ties to even), for x.e >= y.e.
FAddOrdered(x, y) ==
  LET d    == x.e - y.e
      q    == ShiftRight(y, d)
      slo  == x.lo + q[2]
      lo   == slo % 2^LowBits
      hi   == x.hi + q[1] + slo \div 2^LowBits
  IN  IF hi >= 2^HighBits
        THEN \* 54 bits: the last one becomes the rounding bit
          LET half == lo % 2 = 1
              rest == LowBitsSet(y, d)
              lo2  == (lo \div 2) + (hi % 2) * 2^(LowBits - 1)
              hi2  == hi \div 2
          IN  RoundNearestEven(hi2, lo2, x.e + 1, half /\ (rest \/ lo2 % 2 = 1))
        ELSE
          LET half == BitAt(y, d - 1) = 1
              rest == LowBitsSet(y, d - 1)
          IN  RoundNearestEven(hi, lo, x.e, half /\ (rest \/ lo % 2 = 1))

\* x + y in JavaScript.
FAdd(x, y) ==
  IF x = FZero THEN y
  ELSE IF y = FZero THEN x
  ELSE IF x.e >= y.e THEN FAddOrdered(x, y)
  ELSE FAddOrdered(y, x)

\* Long division r/d continued below the point until the quotient <<hi, lo>>
\* has 53 significant bits; k counts the bits produced below the point.
RECURSIVE DivideFrom(_, _, _, _, _)
DivideFrom(r, d, hi, lo, k) ==
  IF hi >= 2^(HighBits - 1)
    THEN LET half == 2 * r >= d
             rest == (IF half THEN 2 * r - d ELSE 2 * r) # 0
         IN  RoundNearestEven(hi, lo, -k, half /\ (rest \/ lo % 2 = 1))
    ELSE LET bit == IF 2 * r >= d THEN 1 ELSE 0
             lo2 == 2 * lo + bit
         IN  DivideFrom(2 * r - bit * d, d, 2 * hi + lo2 \div 2^LowBits,
                        lo2 % 2^LowBits, k + 1)

\* n / d in JavaScript, for integers 0 <= n < 2^31 and d > 0.
FDiv(n, d) ==
  IF n = 0 THEN FZero
  ELSE DivideFrom(n % d, d, (n \div d) \div 2^LowBits, (n \div d) % 2^LowBits, 0)

\* An integer 0 <= n < 2^31 as a Number (exact).
FromInt(n) == FDiv(n, 1)

\* Number.isInteger
FIsInteger(x) == x = FZero \/ x.e >= 0 \/ ~LowBitsSet(x, -x.e)

(***************************************************************************)
(* JavaScript values that are not stored numbers.  A mongoose document     *)
(* yields undefined for a property its schema does not declare; undefined  *)
(* in arithmetic is NaN and every comparison with NaN is false.            *)
(***************************************************************************)
JsNum(n) == [k |-> "number", n |-> n]

JsUndefined == [k |-> "undefined", n |-> 0]

JsNaN == [k |-> "NaN", n |-> 0]

\* a < b
JsLess(a, b) == a.k = "number" /\ b.k = "number" /\ a.n < b.n

\* a + b
JsPlus(a, b) == IF a.k = "number" /\ b.k = "number" THEN JsNum(a.n + b.n) ELSE JsNaN

(***************************************************************************)
(* Bounds of the model.                                                    *)
(***************************************************************************)
Admins == {"a1"}

Users == {"u1", "u2", "u3", "u4"}

Accounts == Admins \cup Users

\* entryFee of a createSpinWheel request; 1001 is more than a new account holds.
EntryFees == {1, 1001}

\* amount of an addCoinsToUser request
GrantAmounts == {1}

\* account an addCoinsToUser request names
GrantTargets == {"u1"}

\* maxParticipants of a createSpinWheel request (the schema minimum), and of
\* one for a wheel with room left when it can start
MaxParticipantsChoices == {3}

WideParticipantsChoices == {4}

\* the entry fees and the accounts of the runs with the scheduler
CheapFees == {1}

Players == {"u1", "u2", "u3"}

\* number of spin wheels ever created
MaxSpinWheels == 2

\* number of service calls that are between their read and their write
MaxInFlight == 2

\* number of addCoinsToUser calls
MaxGrants == 1

\* number of joinSpinWheel calls that get past their checks
MaxJoins == 4

\* number of crashes of the process
MaxCrashes == 1

\* the clock stops here, ms
MaxNow == 360000

(***************************************************************************)
(* Program constants.                                                      *)
(***************************************************************************)
DefaultCoins == 1000

MinParticipants == 3

WinnerPoolPercentage == 70

AdminPoolPercentage == 20

AppPoolPercentage == 10

\* AUTO_START_TIMEOUT, ms
AutoStartTime == 180000

\* scheduleAutoStart starts the countdown when the delay is at most this, ms
CountdownWindow == 10000

\* the period of the countdown interval, ms
CountdownPeriod == 1000

VARIABLES
  spinWheels,     \* the SpinWheel collection: a sequence of documents, _id = index
  users,          \* the User collection: account -> document
  transactions,   \* the Transaction collection: a bag of documents
  calls,          \* the service calls in flight: a bag of call records
  made,           \* calls made so far that got past their first read: join, grant
  emitted,        \* spinwheel:elimination events emitted so far, per spin wheel _id
  observe,        \* whether outcomes of calls are recorded in last
  last,           \* how the call that ended last ended
  now,            \* Date.now(), in ms since the server started first
  events,         \* the events emitted through the socket server, in order
  autoStartTimers,    \* SpinWheelScheduler.autoStartTimers: _id -> time it fires
  eliminationTimers,  \* SpinWheelScheduler.eliminationTimers: the _ids with a timer
  countdowns,     \* the countdown intervals: records of _id, remainingSeconds, next
  crashes,        \* number of times the process crashed and was restarted
  interrupted     \* the _ids of the wheels that were InProgress at a crash

vars == <<spinWheels, users, transactions, calls, made, emitted, observe, last,
          now, events, autoStartTimers, eliminationTimers, countdowns, crashes,
          interrupted>>

\* The in-memory state of the scheduler and what it emitted.
scheduler ==
  <<events, autoStartTimers, eliminationTimers, countdowns, crashes, interrupted>>

NoOutcome == [op |-> "none", res |-> "none"]

Outcome(op, res) == [op |-> op, res |-> res]

\* UserSchema: the only balance path is coins, default 1000, min 0.
NewUser == [coins |-> DefaultCoins, rev |-> 0]

\* user.coinBalance: UserSchema declares no such path.
GetCoinBalance(user) == JsUndefined

\* user.coinBalance = value, then user.save(): the property is not a schema
\* path, so nothing is persisted.
SetCoinBalance(user, value) == user

\* A schema without the min validator on coins.
AnyUserValid(user) == TRUE

\* UserSchema.coins min: [0, 'Coins cannot be negative'], checked by save().
ValidUser(user) == user.coins >= 0

\* transactionSchema: balanceBefore and balanceAfter are required Numbers.
ValidTransaction(t) == t.balanceBefore.k = "number" /\ t.balanceAfter.k = "number"

\* The stored form of a valid Transaction.
StoredTransaction(t) ==
  [userId |-> t.userId, spinWheelId |-> t.spinWheelId, type |-> t.type,
   amount |-> t.amount, balanceBefore |-> t.balanceBefore.n,
   balanceAfter |-> t.balanceAfter.n]

InitStore ==
  /\ spinWheels = <<>>
  /\ users = [a \in Accounts |-> NewUser]
  /\ transactions = EmptyBag
  /\ calls = EmptyBag
  /\ made = [join |-> 0, grant |-> 0]
  /\ emitted = [id \in 1..MaxSpinWheels |-> 0]
  /\ last = NoOutcome
  /\ now = 0
  /\ events = <<>>
  /\ autoStartTimers = [id \in {} |-> 0]
  /\ eliminationTimers = {}
  /\ countdowns = {}
  /\ crashes = 0
  /\ interrupted = {}

Init == InitStore /\ observe = FALSE

\* The same start, with the outcome of each call recorded in last.
InitObserved == InitStore /\ observe = TRUE

Exists(id) == id \in 1..Len(spinWheels)

CanCall == BagCardinality(calls) < MaxInFlight

Record(o) == last' = IF observe THEN o ELSE NoOutcome

\* A call throws at its first read: nothing is written.
Throw(o) ==
  /\ Record(o)
  /\ UNCHANGED <<spinWheels, users, transactions, calls, made, emitted, observe>>

\* A call proceeds past its first read(s), keeping what it read in c.
Proceed(c) ==
  /\ calls' = calls (+) SetToBag({c})
  /\ UNCHANGED <<spinWheels, users, transactions, made, emitted, observe, last>>

\* The call c in flight ends with outcome o and writes nothing.
Fail(c, o) ==
  /\ calls' = calls (-) SetToBag({c})
  /\ Record(o)
  /\ UNCHANGED <<spinWheels, users, transactions, made, emitted, observe>>

InFlight(op) == {c \in BagToSet(calls) : c.op = op}

\* Reads without the status filter.
AnyStatus(w) == TRUE

\* The status filter of the reads: status === SpinWheelStatus.WAITING.
IsWaiting(w) == w.status = "waiting"

\* Saves without the version key in their filter.
NoVersionMismatch(stored, read) == FALSE

\* A save that assigned an array or a field of an array element carries the
\* __v it read in its filter: it fails with a VersionError when the stored
\* __v differs.
VersionMismatch(stored, read) == stored.v # read.v

\* Writes outside a transaction: no write ever conflicts.
NoWriteConflict(stored, read) == FALSE

\* A transaction's write to a document fails when the document was written
\* after the transaction's snapshot was taken.
WriteConflict(stored, read) == stored.rev # read.rev

(***************************************************************************)
(* createSpinWheel: findOne for an active wheel, then (after the await)    *)
(* the document is built and saved.  No transaction, no unique index.      *)
(***************************************************************************)
\* A create without the check for an active wheel.
NoActiveWheel == FALSE

ActiveWheelExists ==
  \E id \in 1..Len(spinWheels) : spinWheels[id].status \in {"waiting", "in_progress"}

NewSpinWheel(adminId, entryFee, maxParticipants) ==
  [adminId |-> adminId, entryFee |-> entryFee, status |-> "waiting",
   participants |-> <<>>, maxParticipants |-> maxParticipants,
   minParticipants |-> MinParticipants,
   winnerPool |-> FZero, adminPool |-> FZero, appPool |-> FZero,
   winnerPoolPercentage |-> WinnerPoolPercentage,
   adminPoolPercentage |-> AdminPoolPercentage,
   appPoolPercentage |-> AppPoolPercentage,
   eliminationSequence |-> <<>>, currentEliminationIndex |-> 0,
   winnerId |-> "", autoStartAt |-> now + AutoStartTime, v |-> 0, rev |-> 0]

\* SpinWheelSchema validators and the pre-save percentage hook.
ValidSpinWheel(w) ==
  /\ w.entryFee >= 1
  /\ w.maxParticipants >= 3
  /\ w.minParticipants >= 3
  /\ w.winnerPoolPercentage + w.adminPoolPercentage + w.appPoolPercentage = 100

CreateRead(adminId, entryFee, maxParticipants) ==
  /\ CanCall
  /\ Len(spinWheels) + Cardinality(InFlight("create")) < MaxSpinWheels
  /\ IF ActiveWheelExists
       THEN Throw(Outcome("create", "ConflictError"))
       ELSE Proceed([op |-> "create", adminId |-> adminId, entryFee |-> entryFee,
                     maxParticipants |-> maxParticipants])

CreateSave(c) ==
  /\ c.op = "create"
  /\ LET w == NewSpinWheel(c.adminId, c.entryFee, c.maxParticipants)
     IN  IF WinnerPoolPercentage + AdminPoolPercentage + AppPoolPercentage # 100
           THEN Fail(c, Outcome("create", "SpinWheelError"))
         ELSE IF ~ValidSpinWheel(w)
           THEN Fail(c, Outcome("create", "ValidationError"))
         ELSE /\ spinWheels' = Append(spinWheels, w)
              /\ calls' = calls (-) SetToBag({c})
              /\ Record(Outcome("create", "ok"))
              /\ UNCHANGED <<users, transactions, made, emitted, observe>>

(***************************************************************************)
(* joinSpinWheel: one MongoDB transaction.  Its reads see the snapshot     *)
(* taken when it starts; a write to a document that someone else changed   *)
(* after that snapshot fails with a write conflict and the transaction     *)
(* aborts.  rev counts the writes to a document.                           *)
(***************************************************************************)
IsParticipant(w, userId) ==
  \E i \in 1..Len(w.participants) : w.participants[i].userId = userId

\* A join without the capacity check.
NeverFull(w) == FALSE

\* Check max participants.
IsFull(w) == Len(w.participants) >= w.maxParticipants

NewParticipant(userId, entryFee) ==
  [userId |-> userId, entryFeePaid |-> entryFee, isEliminated |-> FALSE,
   eliminationOrder |-> 0]

\* n / 100 for the products n = entryFee * percentage that occur, computed
\* once.
Hundredths ==
  [n \in {f * p : f \in EntryFees,
                 p \in {WinnerPoolPercentage, AdminPoolPercentage, AppPoolPercentage}}
     |-> FDiv(n, 100)]

\* A join that updates the pools and adds no participant.
JoinedWheelPoolsOnly(w, userId) ==
  [w EXCEPT !.winnerPool = FAdd(@, Hundredths[w.entryFee * w.winnerPoolPercentage]),
            !.adminPool = FAdd(@, Hundredths[w.entryFee * w.adminPoolPercentage]),
            !.appPool = FAdd(@, Hundredths[w.entryFee * w.appPoolPercentage])]

\* Calculate distribution, update pools, add participant (in memory).
JoinedWheel(w, userId) ==
  LET winnerAmount == Hundredths[w.entryFee * w.winnerPoolPercentage]
      adminAmount  == Hundredths[w.entryFee * w.adminPoolPercentage]
      appAmount    == Hundredths[w.entryFee * w.appPoolPercentage]
  IN  [w EXCEPT !.winnerPool = FAdd(@, winnerAmount),
                !.adminPool = FAdd(@, adminAmount),
                !.appPool = FAdd(@, appAmount),
                !.participants = Append(@, NewParticipant(userId, w.entryFee))]

\* spinWheel.save(): the paths the call modified in its document w, which it
\* read as read, written to the stored one: the pools are set, the new
\* array elements pushed, __v incremented.
JoinSaved(stored, read, w) ==
  [stored EXCEPT !.winnerPool = w.winnerPool,
                 !.adminPool = w.adminPool,
                 !.appPool = w.appPool,
                 !.participants =
                    @ \o SubSeq(w.participants, Len(read.participants) + 1,
                                Len(w.participants)),
                 !.v = @ + 1, !.rev = @ + 1]

\* Deduct coins from user (in memory).
DebitedUser(user, entryFee) == [user EXCEPT !.coins = @ - entryFee]

EntryFeeTransaction(userId, id, w, user) ==
  [userId |-> userId, spinWheelId |-> id, type |-> "entry_fee",
   amount |-> -w.entryFee,
   balanceBefore |-> JsNum(user.coins),
   balanceAfter |-> JsNum(user.coins - w.entryFee)]

\* A join without the check for the wheel's admin.
NobodyIsAdmin(w, userId) == FALSE

\* spinWheel.adminId.toString() === userId
IsAdminOf(w, userId) == w.adminId = userId

JoinBegin(id, userId) ==
  /\ CanCall
  /\ LET o(res) == Outcome("join", res)
     IN  IF ~Exists(id) THEN Throw(o("NotFoundError"))
         ELSE LET w == spinWheels[id] IN
           IF ~IsWaiting(w) THEN Throw(o("NotFoundError"))
           ELSE IF IsAdminOf(w, userId) THEN Throw(o("SpinWheelError"))
           ELSE IF IsParticipant(w, userId) THEN Throw(o("ConflictError"))
           ELSE IF IsFull(w) THEN Throw(o("SpinWheelError"))
           ELSE IF JsLess(GetCoinBalance(users[userId]), JsNum(w.entryFee))
             THEN Throw(o("InsufficientFundsError"))
           ELSE /\ made.join < MaxJoins
                /\ calls' = calls (+) SetToBag({[op |-> "join", id |-> id,
                                                 userId |-> userId, wheel |-> w,
                                                 user |-> users[userId]]})
                /\ made' = [made EXCEPT !.join = @ + 1]
                /\ UNCHANGED <<spinWheels, users, transactions, emitted, observe, last>>

JoinCommit(c) ==
  /\ c.op = "join"
  /\ LET o(res) == Outcome("join", res)
         w == JoinedWheel(c.wheel, c.userId)
         u == DebitedUser(c.user, c.wheel.entryFee)
         t == EntryFeeTransaction(c.userId, c.id, c.wheel, c.user)
     IN  IF WriteConflict(spinWheels[c.id], c.wheel) THEN Fail(c, o("WriteConflict"))
         ELSE IF ~ValidUser(u) THEN Fail(c, o("ValidationError"))
         ELSE IF WriteConflict(users[c.userId], c.user) THEN Fail(c, o("WriteConflict"))
         ELSE IF ~ValidTransaction(t) THEN Fail(c, o("ValidationError"))
         ELSE /\ spinWheels' = [spinWheels EXCEPT ![c.id] = JoinSaved(@, c.wheel, w)]
              /\ users' = [users EXCEPT ![c.userId] =
                             [@ EXCEPT !.coins = u.coins, !.rev = @ + 1]]
              /\ transactions' = transactions (+) SetToBag({StoredTransaction(t)})
              /\ calls' = calls (-) SetToBag({c})
              /\ Record(o("ok"))
              /\ UNCHANGED <<made, emitted, observe>>

(***************************************************************************)
(* startSpinWheel: findById, then save.  No transaction.  The save assigns *)
(* an array, so mongoose sends it with the __v it read in the filter and   *)
(* increments __v; it writes only the paths the call modified.             *)
(***************************************************************************)
Swap(a, i, j) == [a EXCEPT ![i] = a[j], ![j] = a[i]]

\* The loop of shuffleArray from position i down; picks[i] is the position
\* Math.floor(Math.random() * (i + 1)) chose for i (here counted from 1).
RECURSIVE ShuffleFrom(_, _, _)
ShuffleFrom(a, i, picks) ==
  IF i <= 1 THEN a ELSE ShuffleFrom(Swap(a, i, picks[i]), i - 1, picks)

ShuffleArray(array, picks) == ShuffleFrom(array, Len(array), picks)

\* What Math.random can make the loop pick for an array of n elements.
Picks(n) == {p \in [1..n -> 1..n] : \A i \in 1..n : p[i] <= i}

ParticipantIds(w) == [i \in 1..Len(w.participants) |-> w.participants[i].userId]

\* A start without the check of the number of participants.
AnyCountStarts(w) == TRUE

\* spinWheel.participants.length >= spinWheel.minParticipants
HasMinParticipants(w) == Len(w.participants) >= w.minParticipants

StartRead(id) ==
  /\ CanCall
  /\ LET o(res) == Outcome("start", res)
     IN  IF ~Exists(id) THEN Throw(o("NotFoundError"))
         ELSE LET w == spinWheels[id] IN
           IF ~IsWaiting(w) THEN Throw(o("SpinWheelError"))
           ELSE IF ~HasMinParticipants(w) THEN Throw(o("SpinWheelError"))
           ELSE Proceed([op |-> "start", id |-> id, wheel |-> w])

StartedWheel(stored, shuffled) ==
  [stored EXCEPT !.eliminationSequence = shuffled,
                 !.currentEliminationIndex = 0,
                 !.status = "in_progress",
                 !.v = @ + 1, !.rev = @ + 1]

StartSave(c, picks) ==
  /\ c.op = "start"
  /\ IF VersionMismatch(spinWheels[c.id], c.wheel)
       THEN Fail(c, Outcome("start", "VersionError"))
       ELSE /\ spinWheels' = [spinWheels EXCEPT ![c.id] =
                  StartedWheel(@, ShuffleArray(ParticipantIds(c.wheel), picks))]
            /\ calls' = calls (-) SetToBag({c})
            /\ Record(Outcome("start", "ok"))
            /\ UNCHANGED <<users, transactions, made, emitted, observe>>

(***************************************************************************)
(* abortSpinWheel: one transaction.  For every participant the user is     *)
(* read, user.coinBalance is increased and saved, and a refund Transaction *)
(* is saved; then the pools are zeroed and the wheel saved.                *)
(***************************************************************************)
RefundTransaction(p, id, user) ==
  [userId |-> p.userId, spinWheelId |-> id, type |-> "refund",
   amount |-> p.entryFeePaid,
   balanceBefore |-> GetCoinBalance(user),
   balanceAfter |-> JsPlus(GetCoinBalance(user), JsNum(p.entryFeePaid))]

\* The refund loop over participants ps[i..]: us are the user documents as
\* the transaction sees them, ts the Transactions it has saved.
RECURSIVE RefundFrom(_, _, _, _, _)
RefundFrom(ps, i, id, us, ts) ==
  IF i > Len(ps) THEN [res |-> "ok", users |-> us, transactions |-> ts]
  ELSE
    LET p == ps[i]
        t == RefundTransaction(p, id, us[p.userId])
        u == SetCoinBalance(us[p.userId], t.balanceAfter)
    IN  IF ~ValidUser(u) \/ ~ValidTransaction(t)
          THEN [res |-> "ValidationError", users |-> us, transactions |-> ts]
          ELSE RefundFrom(ps, i + 1, id, [us EXCEPT ![p.userId] = u],
                          ts (+) SetToBag({StoredTransaction(t)}))

AbortedWheel(stored) ==
  [stored EXCEPT !.winnerPool = FZero, !.adminPool = FZero, !.appPool = FZero,
                 !.status = "aborted", !.rev = @ + 1]

AbortBegin(id) ==
  /\ CanCall
  /\ LET o(res) == Outcome("abort", res)
     IN  IF ~Exists(id) THEN Throw(o("NotFoundError"))
         ELSE IF ~IsWaiting(spinWheels[id]) THEN Throw(o("SpinWheelError"))
         ELSE Proceed([op |-> "abort", id |-> id, wheel |-> spinWheels[id],
                       users |-> users])

\* The documents of us that differ from those of the snapshot: the writes.
Written(us, snapshot) == {a \in Accounts : us[a] # snapshot[a]}

AbortCommit(c) ==
  /\ c.op = "abort"
  /\ LET o(res) == Outcome("abort", res)
         r == RefundFrom(c.wheel.participants, 1, c.id, c.users, EmptyBag)
     IN  IF r.res # "ok" THEN Fail(c, o(r.res))
         ELSE IF \E a \in Written(r.users, c.users) : WriteConflict(users[a], c.users[a])
           THEN Fail(c, o("WriteConflict"))
         ELSE IF WriteConflict(spinWheels[c.id], c.wheel) THEN Fail(c, o("WriteConflict"))
         ELSE /\ spinWheels' = [spinWheels EXCEPT ![c.id] = AbortedWheel(@)]
              /\ users' = [a \in Accounts |->
                             IF a \in Written(r.users, c.users)
                               THEN [r.users[a] EXCEPT !.rev = @ + 1]
                               ELSE users[a]]
              /\ transactions' = transactions (+) r.transactions
              /\ calls' = calls (-) SetToBag({c})
              /\ Record(o("ok"))
              /\ UNCHANGED <<made, emitted, observe>>

(***************************************************************************)
(* eliminateNext: findById, then either save (no transaction) or           *)
(* completeSpinWheel (one transaction that ends with the save).  The save  *)
(* sets fields of one array element, so mongoose sends it with the __v it  *)
(* read in the filter, without incrementing __v; it writes only the paths  *)
(* the call modified.                                                      *)
(***************************************************************************)
\* Position of the first participant with this userId, 0 if there is none.
FindParticipant(w, userId) ==
  IF IsParticipant(w, userId)
    THEN CHOOSE i \in 1..Len(w.participants) :
           /\ w.participants[i].userId = userId
           /\ \A j \in 1..(i - 1) : w.participants[j].userId # userId
    ELSE 0

\* The document eliminateNext holds after marking the next participant.
Eliminated(w) ==
  LET i == FindParticipant(w, w.eliminationSequence[w.currentEliminationIndex + 1])
      marked == IF i = 0 THEN w
                ELSE [w EXCEPT !.participants[i].isEliminated = TRUE,
                               !.participants[i].eliminationOrder =
                                  w.currentEliminationIndex + 1]
  IN  [marked EXCEPT !.currentEliminationIndex = @ + 1]

RemainingCount(w) ==
  Cardinality({i \in 1..Len(w.participants) : ~w.participants[i].isEliminated})

\* The paths eliminateNext modified in its document w, written to the stored one.
EliminationSaved(stored, w) ==
  LET i == FindParticipant(w, w.eliminationSequence[w.currentEliminationIndex])
      marked == IF i = 0 THEN stored
                ELSE [stored EXCEPT !.participants[i].isEliminated = TRUE,
                                    !.participants[i].eliminationOrder =
                                       w.participants[i].eliminationOrder]
  IN  [marked EXCEPT !.currentEliminationIndex = w.currentEliminationIndex,
                     !.rev = @ + 1]

PrizeTransaction(w, id, winnerId, user) ==
  [userId |-> winnerId, spinWheelId |-> id, type |-> "prize_win",
   amount |-> w.winnerPool,
   balanceBefore |-> GetCoinBalance(user),
   balanceAfter |-> JsPlus(GetCoinBalance(user), JsNum(w.winnerPool))]

CommissionTransaction(w, id, user) ==
  [userId |-> w.adminId, spinWheelId |-> id, type |-> "admin_commission",
   amount |-> w.adminPool,
   balanceBefore |-> GetCoinBalance(user),
   balanceAfter |-> JsPlus(GetCoinBalance(user), JsNum(w.adminPool))]

AppFeeTransaction(w, id) ==
  [userId |-> w.adminId, spinWheelId |-> id, type |-> "app_fee",
   amount |-> w.appPool, balanceBefore |-> JsNum(0), balanceAfter |-> JsNum(0)]

\* The scheduler tick that called eliminateNext emits spinwheel:elimination
\* when the call returns.
Emit(id) == emitted' = [emitted EXCEPT ![id] = @ + 1]

EliminateRead(id) ==
  /\ CanCall
  /\ LET o(res) == Outcome("eliminate", res)
     IN  IF ~Exists(id) THEN Throw(o("NotFoundError"))
         ELSE LET w == spinWheels[id] IN
           IF w.status # "in_progress" THEN Throw(o("SpinWheelError"))
           ELSE IF w.currentEliminationIndex >= Len(w.eliminationSequence)
             THEN Throw(o("SpinWheelError"))
           ELSE Proceed([op |-> "eliminate", id |-> id, wheel |-> w])

\* completeSpinWheel(w), called by eliminateNext when one participant remains.
CompleteSpinWheel(c, w) ==
  LET o(res) == Outcome("eliminate", res)
      winner == CHOOSE i \in 1..Len(w.participants) :
                  /\ ~w.participants[i].isEliminated
                  /\ \A j \in 1..(i - 1) : w.participants[j].isEliminated
      winnerId == w.participants[winner].userId
      pt == PrizeTransaction(w, c.id, winnerId, users[winnerId])
      u1 == [users EXCEPT ![winnerId] = SetCoinBalance(@, pt.balanceAfter)]
      ct == CommissionTransaction(w, c.id, u1[w.adminId])
      u2 == [u1 EXCEPT ![w.adminId] = SetCoinBalance(@, ct.balanceAfter)]
      at == AppFeeTransaction(w, c.id)
  IN  IF ~ValidUser(u1[winnerId]) \/ ~ValidTransaction(pt)
        THEN Fail(c, o("ValidationError"))
      ELSE IF ~ValidUser(u2[w.adminId]) \/ ~ValidTransaction(ct)
        THEN Fail(c, o("ValidationError"))
      ELSE IF ~ValidTransaction(at) THEN Fail(c, o("ValidationError"))
      ELSE IF VersionMismatch(spinWheels[c.id], c.wheel) THEN Fail(c, o("VersionError"))
      ELSE /\ spinWheels' = [spinWheels EXCEPT ![c.id] =
                 [EliminationSaved(@, w) EXCEPT !.winnerId = winnerId,
                                                !.status = "completed"]]
           /\ users' = [a \in Accounts |->
                          IF u2[a] # users[a] THEN [u2[a] EXCEPT !.rev = @ + 1]
                          ELSE users[a]]
           /\ transactions' = transactions (+) SetToBag({StoredTransaction(pt)})
                                (+) SetToBag({StoredTransaction(ct)})
                                (+) SetToBag({StoredTransaction(at)})
           /\ calls' = calls (-) SetToBag({c})
           /\ Emit(c.id)
           /\ Record(o("ok"))
           /\ UNCHANGED <<made, observe>>

EliminateSave(c) ==
  /\ c.op = "eliminate"
  /\ LET w == Eliminated(c.wheel)
     IN  IF RemainingCount(w) = 1 THEN CompleteSpinWheel(c, w)
         ELSE IF VersionMismatch(spinWheels[c.id], c.wheel)
           THEN Fail(c, Outcome("eliminate", "VersionError"))
         ELSE /\ spinWheels' = [spinWheels EXCEPT ![c.id] = EliminationSaved(@, w)]
              /\ calls' = calls (-) SetToBag({c})
              /\ Emit(c.id)
              /\ Record(Outcome("eliminate", "ok"))
              /\ UNCHANGED <<users, transactions, made, observe>>

(***************************************************************************)
(* addCoinsToUser: findById, then save of the new absolute balance.  No    *)
(* transaction, no Transaction document.                                   *)
(***************************************************************************)
GrantRead(userId, amount) ==
  /\ CanCall
  /\ made.grant < MaxGrants
  /\ calls' = calls (+) SetToBag({[op |-> "grant", userId |-> userId,
                                   amount |-> amount, user |-> users[userId]]})
  /\ made' = [made EXCEPT !.grant = @ + 1]
  /\ UNCHANGED <<spinWheels, users, transactions, emitted, observe, last>>

GrantedUser(stored, user, amount) ==
  [stored EXCEPT !.coins = user.coins + amount, !.rev = @ + 1]

GrantSave(c) ==
  /\ c.op = "grant"
  /\ users' = [users EXCEPT ![c.userId] = GrantedUser(@, c.user, c.amount)]
  /\ calls' = calls (-) SetToBag({c})
  /\ Record(Outcome("grant", "ok"))
  /\ UNCHANGED <<spinWheels, transactions, made, emitted, observe>>

(***************************************************************************)
(* The service under concurrent requests.  A request from a controller     *)
(* touches nothing of the scheduler: the controllers emit no event and set *)
(* no timer.                                                               *)
(***************************************************************************)
\* A call the scheduler made: it carries the document the scheduler read.
ByScheduler(c) == "seen" \in DOMAIN c

Request(c) == ~ByScheduler(c)

\* createSpinWheel requests, one at a time.
Create ==
  /\ InFlight("create") = {}
  /\ \E a \in Admins, f \in EntryFees, m \in MaxParticipantsChoices : CreateRead(a, f, m)
  /\ UNCHANGED <<now, scheduler>>

\* createSpinWheel requests, one at a time, for wheels that can start with
\* room left.
CreateWide ==
  /\ InFlight("create") = {}
  /\ \E a \in Admins, f \in EntryFees, m \in WideParticipantsChoices : CreateRead(a, f, m)
  /\ UNCHANGED <<now, scheduler>>

\* createSpinWheel requests that may overlap.
CreateRace ==
  /\ \E a \in Admins, f \in EntryFees, m \in MaxParticipantsChoices : CreateRead(a, f, m)
  /\ UNCHANGED <<now, scheduler>>

CreateEnd ==
  /\ \E c \in BagToSet(calls) : CreateSave(c)
  /\ UNCHANGED <<now, scheduler>>

Join ==
  /\ \E id \in 1..MaxSpinWheels, u \in Accounts : JoinBegin(id, u)
  /\ UNCHANGED <<now, scheduler>>

JoinEnd ==
  /\ \E c \in BagToSet(calls) : JoinCommit(c)
  /\ UNCHANGED <<now, scheduler>>

Start ==
  /\ \E id \in 1..MaxSpinWheels : StartRead(id)
  /\ UNCHANGED <<now, scheduler>>

StartEnd ==
  /\ \E c \in BagToSet(calls) :
       /\ c.op = "start" /\ Request(c)
       /\ \E picks \in Picks(Len(c.wheel.participants)) : StartSave(c, picks)
  /\ UNCHANGED <<now, scheduler>>

Abort ==
  /\ \E id \in 1..MaxSpinWheels : AbortBegin(id)
  /\ UNCHANGED <<now, scheduler>>

AbortEnd ==
  /\ \E c \in BagToSet(calls) : Request(c) /\ AbortCommit(c)
  /\ UNCHANGED <<now, scheduler>>

Eliminate ==
  /\ \E id \in 1..MaxSpinWheels : EliminateRead(id)
  /\ UNCHANGED <<now, scheduler>>

EliminateEnd ==
  /\ \E c \in BagToSet(calls) : Request(c) /\ EliminateSave(c)
  /\ UNCHANGED <<now, scheduler>>

Grant ==
  /\ \E u \in GrantTargets, n \in GrantAmounts : GrantRead(u, n)
  /\ UNCHANGED <<now, scheduler>>

GrantEnd ==
  /\ \E c \in BagToSet(calls) : GrantSave(c)
  /\ UNCHANGED <<now, scheduler>>

(***************************************************************************)
(* SpinWheelScheduler.  Its sweeps and timer callbacks are async functions *)
(* that nothing serialises: each await is a point where requests and other *)
(* callbacks run.  A callback that is in flight is a call record that      *)
(* carries, as seen, the document the callback itself read; the service    *)
(* call it makes reads the document again.  What a callback emits after an *)
(* awaited service call is emitted in the step in which that call returns. *)
(***************************************************************************)
Event(type, id, userId, order, sequence) ==
  [type |-> type, id |-> id, userId |-> userId, order |-> order,
   sequence |-> sequence]

EventsOf(id) == SelectSeq(events, LAMBDA e : e.id = id)

\* A callback that does not wait for the service call's result.
AlwaysReturned(before, after) == TRUE

\* The awaited service call returned without throwing: it has written.
Returned(before, after) == before # after

\* clearAutoStartTimer
ClearedAutoStartTimer(id) ==
  [i \in DOMAIN autoStartTimers \ {id} |-> autoStartTimers[i]]

\* The callback c replaces its record by d: it went on to its next await.
Continue(c, d) ==
  /\ calls' = (calls (-) SetToBag({c})) (+) SetToBag({d})
  /\ UNCHANGED <<spinWheels, users, transactions, made, emitted, observe, last>>

\* A service call of the callback c threw at its first read: the callback's
\* catch block logs the error.
Caught(c) ==
  /\ calls' = calls (-) SetToBag({c})
  /\ UNCHANGED <<spinWheels, users, transactions, made, emitted, observe, last>>

\* autoStartSpinWheel up to its findById and status check, called when the
\* auto-start timers are timers.
AutoStartSpinWheel(id, timers) ==
  /\ CanCall
  /\ Exists(id)
  /\ IF ~IsWaiting(spinWheels[id])
       THEN /\ autoStartTimers' = [i \in DOMAIN timers \ {id} |-> timers[i]]
            /\ UNCHANGED calls
       ELSE /\ calls' = calls (+) SetToBag({[op |-> "autostart", id |-> id,
                                             seen |-> spinWheels[id]]})
            /\ autoStartTimers' = timers
  /\ UNCHANGED <<spinWheels, users, transactions, made, emitted, observe, last,
                 now, events, eliminationTimers, crashes, interrupted>>

\* checkPendingSpinWheels: the Waiting wheels whose autoStartAt has passed are
\* handed to autoStartSpinWheel.
CheckPendingSpinWheels ==
  \E id \in 1..Len(spinWheels) :
    /\ IsWaiting(spinWheels[id])
    /\ spinWheels[id].autoStartAt <= now
    /\ AutoStartSpinWheel(id, autoStartTimers)
    /\ UNCHANGED countdowns

\* Math.ceil(ms / 1000)
CeilSeconds(ms) == (ms + 999) \div 1000

\* scheduleAutoStart(id, autoStartAt of the wheel): the timer, and the
\* countdown when the delay is within the window.
ScheduleAutoStart(id) ==
  /\ Exists(id)
  /\ LET delay == spinWheels[id].autoStartAt - now
         cleared == ClearedAutoStartTimer(id)
     IN  IF delay <= 0
           THEN AutoStartSpinWheel(id, cleared) /\ UNCHANGED countdowns
           ELSE /\ autoStartTimers' =
                     [i \in DOMAIN cleared \cup {id} |->
                        IF i = id THEN now + delay ELSE cleared[i]]
                /\ countdowns' =
                     IF delay <= CountdownWindow
                       THEN countdowns \cup
                              {[id |-> id, remainingSeconds |-> CeilSeconds(delay),
                                next |-> now + CountdownPeriod]}
                       ELSE countdowns
                /\ UNCHANGED <<spinWheels, users, transactions, calls, made, emitted,
                               observe, last, now, events, eliminationTimers, crashes, interrupted>>

\* The callback of a countdown interval.
CountdownTick(t) ==
  /\ t \in countdowns
  /\ t.next <= now
  /\ LET remainingSeconds == t.remainingSeconds - 1
     IN  IF remainingSeconds <= 0
           THEN /\ countdowns' = countdowns \ {t}
                /\ UNCHANGED events
           ELSE /\ countdowns' = (countdowns \ {t}) \cup
                     {[t EXCEPT !.remainingSeconds = remainingSeconds,
                                !.next = @ + CountdownPeriod]}
                /\ events' = Append(events,
                     Event("countdown", t.id, "", remainingSeconds, <<>>))
  /\ UNCHANGED <<spinWheels, users, transactions, calls, made, emitted, observe,
                 last, now, autoStartTimers, eliminationTimers, crashes, interrupted>>

\* The callback of an auto-start timer.
AutoStartTimeout(id) ==
  /\ id \in DOMAIN autoStartTimers
  /\ autoStartTimers[id] <= now
  /\ AutoStartSpinWheel(id, ClearedAutoStartTimer(id))
  /\ UNCHANGED countdowns

\* No timer is due: a second may pass.
NoTimerDue ==
  /\ \A t \in countdowns : t.next > now
  /\ \A id \in DOMAIN autoStartTimers : autoStartTimers[id] > now

\* autoStartSpinWheel from its decision to the first read of the service call
\* it makes: abortSpinWheel below minParticipants, startSpinWheel otherwise.
AutoStartCall(c) ==
  /\ c.op = "autostart"
  /\ LET w == spinWheels[c.id]
     IN  IF Len(c.seen.participants) < c.seen.minParticipants
           THEN IF ~IsWaiting(w) THEN Caught(c)
                ELSE Continue(c, [op |-> "abort", id |-> c.id, wheel |-> w,
                                  users |-> users, seen |-> c.seen])
           ELSE IF ~IsWaiting(w) \/ Len(w.participants) < w.minParticipants
                  THEN Caught(c)
                ELSE Continue(c, [op |-> "start", id |-> c.id, wheel |-> w,
                                  seen |-> c.seen])
  /\ UNCHANGED <<now, scheduler>>

\* The service call of autoStartSpinWheel ends; when it returned, the event
\* is emitted, the auto-start timer cleared and, after a start, the
\* elimination process started.
AutoStartEnd(c) ==
  /\ ByScheduler(c)
  /\ \/ /\ c.op = "abort"
        /\ AbortCommit(c)
        /\ IF Returned(spinWheels, spinWheels')
             THEN /\ events' = Append(events,
                       Event("aborted", c.id, "", Len(c.seen.participants), <<>>))
                  /\ autoStartTimers' = ClearedAutoStartTimer(c.id)
             ELSE UNCHANGED <<events, autoStartTimers>>
        /\ UNCHANGED eliminationTimers
     \/ /\ c.op = "start"
        /\ \E picks \in Picks(Len(c.wheel.participants)) : StartSave(c, picks)
        /\ IF Returned(spinWheels, spinWheels')
             THEN /\ events' = Append(events,
                       Event("started", c.id, "", Len(spinWheels'[c.id].participants),
                             spinWheels'[c.id].eliminationSequence))
                  /\ autoStartTimers' = ClearedAutoStartTimer(c.id)
                  /\ eliminationTimers' = eliminationTimers \cup {c.id}
             ELSE UNCHANGED <<events, autoStartTimers, eliminationTimers>>
  /\ UNCHANGED <<now, countdowns, crashes, interrupted>>

\* checkActiveSpinWheels: an InProgress wheel without an elimination timer
\* gets one.
CheckActiveSpinWheels ==
  \E id \in 1..Len(spinWheels) :
    /\ spinWheels[id].status = "in_progress"
    /\ id \notin eliminationTimers
    /\ eliminationTimers' = eliminationTimers \cup {id}
    /\ UNCHANGED <<spinWheels, users, transactions, calls, made, emitted, observe,
                   last, now, events, autoStartTimers, countdowns, crashes, interrupted>>

\* A tick of the elimination interval, up to its findById and checks.
TickRead(id) ==
  /\ id \in eliminationTimers
  /\ CanCall
  /\ LET w == spinWheels[id]
     IN  IF w.status # "in_progress"
              \/ w.currentEliminationIndex >= Len(w.eliminationSequence)
           THEN /\ eliminationTimers' = eliminationTimers \ {id}
                /\ UNCHANGED calls
           ELSE /\ calls' = calls (+) SetToBag({[op |-> "tick", id |-> id, seen |-> w]})
                /\ UNCHANGED eliminationTimers
  /\ UNCHANGED <<spinWheels, users, transactions, made, emitted, observe, last,
                 now, events, autoStartTimers, countdowns, crashes, interrupted>>

\* The tick calls eliminateNext, which reads the wheel.
TickCall(c) ==
  /\ c.op = "tick"
  /\ LET w == spinWheels[c.id]
     IN  IF w.status # "in_progress"
              \/ w.currentEliminationIndex >= Len(w.eliminationSequence)
           THEN Caught(c)
           ELSE Continue(c, [op |-> "eliminate", id |-> c.id, wheel |-> w,
                             seen |-> c.seen])
  /\ UNCHANGED <<now, scheduler>>

\* What the tick emits when eliminateNext returned the wheel updated: the
\* elimination, computed from the document the tick read, and for a
\* Completed wheel the completion and the winner's notification.
TickEvents(c, updated) ==
  LET i == c.seen.currentEliminationIndex
      elimination == Event("elimination", c.id, c.seen.eliminationSequence[i + 1],
                           i + 1, <<>>)
  IN  IF updated.status = "completed"
        THEN <<elimination,
               Event("completed", c.id, updated.winnerId, 0, <<>>),
               Event("won", c.id, updated.winnerId, 0, <<>>)>>
        ELSE <<elimination>>

\* eliminateNext ends.
TickEnd(c) ==
  /\ ByScheduler(c)
  /\ c.op = "eliminate"
  /\ EliminateSave(c)
  /\ IF Returned(emitted, emitted')
       THEN /\ events' = events \o TickEvents(c, spinWheels'[c.id])
            /\ eliminationTimers' =
                 IF spinWheels'[c.id].status = "completed"
                   THEN eliminationTimers \ {c.id} ELSE eliminationTimers
       ELSE UNCHANGED <<events, eliminationTimers>>
  /\ UNCHANGED <<now, autoStartTimers, countdowns, crashes, interrupted>>

\* The process dies and is started again: the calls in flight end without
\* having written, every timer is lost, initialize sets the sweeps up again.
Crash ==
  /\ crashes < MaxCrashes
  /\ crashes' = crashes + 1
  /\ interrupted' = interrupted \cup
       {id \in 1..Len(spinWheels) : spinWheels[id].status = "in_progress"}
  /\ calls' = EmptyBag
  /\ autoStartTimers' = [id \in {} |-> 0]
  /\ eliminationTimers' = {}
  /\ countdowns' = {}
  /\ UNCHANGED <<spinWheels, users, transactions, made, emitted, observe, last,
                 now, events>>

\* Time passes by d ms.
Elapse(d) ==
  /\ now + d <= MaxNow
  /\ now' = now + d
  /\ UNCHANGED <<spinWheels, users, transactions, calls, made, emitted, observe,
                 last, scheduler>>

Next ==
  \/ Create \/ CreateEnd
  \/ Join \/ JoinEnd
  \/ Start \/ StartEnd
  \/ Abort \/ AbortEnd
  \/ Eliminate \/ EliminateEnd
  \/ Grant \/ GrantEnd

Spec == Init /\ [][Next]_vars

\* Overlapping createSpinWheel requests, with the requests made of a wheel
\* that waits.
NextRace ==
  \/ CreateRace \/ CreateEnd
  \/ Join \/ JoinEnd
  \/ Abort \/ AbortEnd

SpecRace == Init /\ [][NextRace]_vars

\* Wheels that can start with room left: joins, starts and eliminations.
NextWide ==
  \/ CreateWide \/ CreateEnd
  \/ Join \/ JoinEnd
  \/ Start \/ StartEnd
  \/ Eliminate \/ EliminateEnd

SpecWide == Init /\ [][NextWide]_vars

(***************************************************************************)
(* The server: requests, the scheduler's sweeps and ticks, the clock and a *)
(* crash.                                                                  *)
(***************************************************************************)
AutoStartNext == \E c \in BagToSet(calls) : AutoStartCall(c)

AutoStartDone == \E c \in BagToSet(calls) : AutoStartEnd(c)

Tick == \E id \in 1..MaxSpinWheels : TickRead(id)

TickNext == \E c \in BagToSet(calls) : TickCall(c)

TickDone == \E c \in BagToSet(calls) : TickEnd(c)

\* The clock reaches the next autoStartAt.
Wait == Elapse(AutoStartTime)

\* createSpinWheel requests, one at a time, for wheels every player can
\* afford.
CreateCheap ==
  /\ InFlight("create") = {}
  /\ \E a \in Admins, f \in CheapFees, m \in MaxParticipantsChoices : CreateRead(a, f, m)
  /\ UNCHANGED <<now, scheduler>>

\* joinSpinWheel requests of the players.
JoinPlayers ==
  /\ \E id \in 1..MaxSpinWheels, u \in Players : JoinBegin(id, u)
  /\ UNCHANGED <<now, scheduler>>

NextServer ==
  \/ CreateCheap \/ CreateEnd
  \/ JoinPlayers \/ JoinEnd
  \/ Start \/ StartEnd
  \/ Wait
  \/ CheckPendingSpinWheels \/ AutoStartNext \/ AutoStartDone
  \/ CheckActiveSpinWheels
  \/ Tick \/ TickNext \/ TickDone
  \/ Crash

SpecServer == Init /\ [][NextServer]_vars

(***************************************************************************)
(* The server left running: the sweeps of initialize's interval and the    *)
(* ticks of an elimination interval keep coming, every call in flight gets *)
(* its answer from the database and the clock goes on.  The outcome of     *)
(* each request is recorded.  Wheels are created while the clock can still *)
(* reach their autoStartAt.                                                *)
(***************************************************************************)
CreateEndEarly ==
  /\ now + AutoStartTime <= MaxNow
  /\ CreateEnd

\* abortSpinWheel requests for a wheel that has been started.
AbortStarted ==
  /\ \E id \in 1..Len(spinWheels) :
       spinWheels[id].status = "in_progress" /\ AbortBegin(id)
  /\ UNCHANGED <<now, scheduler>>

\* The first createSpinWheel request.
CreateFirst ==
  /\ spinWheels = <<>>
  /\ CreateCheap

NextRunning ==
  \/ CreateFirst \/ CreateEndEarly
  \/ JoinPlayers \/ JoinEnd
  \/ AbortStarted
  \/ Wait
  \/ CheckPendingSpinWheels \/ AutoStartNext \/ AutoStartDone
  \/ Tick \/ TickNext \/ TickDone

Fairness ==
  /\ WF_vars(Wait)
  /\ WF_vars(CreateEndEarly) /\ WF_vars(JoinEnd)
  /\ SF_vars(CheckPendingSpinWheels)
  /\ WF_vars(AutoStartNext) /\ WF_vars(AutoStartDone)
  /\ SF_vars(Tick)
  /\ WF_vars(TickNext) /\ WF_vars(TickDone)

SpecRunning == InitObserved /\ [][NextRunning]_vars /\ Fairness

(***************************************************************************)
(* The auto-start timer and the countdown of a wheel created when the      *)
(* server starts, with the clock in steps of the countdown's period.       *)
(***************************************************************************)
CreateAtBoot == now = 0 /\ CreateFirst

CreateEndAtBoot == now = 0 /\ CreateEnd

\* scheduleAutoStart for a wheel that has no auto-start timer.
Schedule ==
  \E id \in 1..MaxSpinWheels : id \notin DOMAIN autoStartTimers /\ ScheduleAutoStart(id)

Countdown == \E t \in countdowns : CountdownTick(t)

Timeout == \E id \in 1..MaxSpinWheels : AutoStartTimeout(id)

Second == NoTimerDue /\ Elapse(CountdownPeriod)

NextCountdown ==
  \/ CreateAtBoot \/ CreateEndAtBoot
  \/ Schedule \/ Countdown \/ Timeout
  \/ Second
  \/ CheckPendingSpinWheels \/ AutoStartNext \/ AutoStartDone

SpecCountdown == Init /\ [][NextCountdown]_vars

(***************************************************************************)
(* The requests with the outcome of each recorded, and the clock.          *)
(***************************************************************************)
NextObserved ==
  \/ Create \/ CreateEnd
  \/ Join \/ JoinEnd
  \/ Abort \/ AbortEnd
  \/ Wait

SpecObserved == InitObserved /\ [][NextObserved]_vars

(***************************************************************************)
(* Rounds of the players created, joined, started and aborted on request,  *)
(* with the outcome of each call recorded.                                 *)
(***************************************************************************)
NextStarts ==
  \/ CreateCheap \/ CreateEnd
  \/ JoinPlayers \/ JoinEnd
  \/ Start \/ StartEnd
  \/ Abort \/ AbortEnd

SpecStarts == InitObserved /\ [][NextStarts]_vars

(***************************************************************************)
(* The server started on a store that holds a round InProgress whose       *)
(* currentEliminationIndex is at the end of its eliminationSequence: the   *)
(* case the check of startEliminationProcess is there for.                 *)
(***************************************************************************)
\* The round of the three players, joined and started with this sequence,
\* in which all but left of them are marked eliminated in that order.
FoundWheel(sequence, left) ==
  LET created == NewSpinWheel("a1", 1, 3)
      joined  == JoinedWheel(JoinedWheel(JoinedWheel(created, "u1"), "u2"), "u3")
      started == StartedWheel(joined, sequence)
      order(u) == CHOOSE k \in 1..Len(sequence) : sequence[k] = u
      ps == started.participants
  IN  [started EXCEPT
         !.currentEliminationIndex = Len(sequence),
         !.participants =
            [i \in 1..Len(ps) |->
               IF order(ps[i].userId) <= Len(sequence) - left
                 THEN [ps[i] EXCEPT !.isEliminated = TRUE,
                                    !.eliminationOrder = order(ps[i].userId)]
                 ELSE ps[i]]]

InitFound ==
  /\ now = 0
  /\ \E picks \in Picks(3), left \in {0, 1} :
       spinWheels = <<FoundWheel(ShuffleArray(<<"u1", "u2", "u3">>, picks), left)>>
  /\ users = [a \in Accounts |->
                IF a \in Players THEN DebitedUser(NewUser, 1) ELSE NewUser]
  /\ transactions =
       SetToBag({StoredTransaction(EntryFeeTransaction(u, 1, spinWheels[1], NewUser)) :
                   u \in Players})
  /\ calls = EmptyBag
  /\ made = [join |-> 0, grant |-> 0]
  /\ emitted = [id \in 1..MaxSpinWheels |-> 0]
  /\ observe = TRUE
  /\ last = NoOutcome
  /\ events = <<>>
  /\ autoStartTimers = [id \in {} |-> 0]
  /\ eliminationTimers = {}
  /\ countdowns = {}
  /\ crashes = 0
  /\ interrupted = {}

NextFound ==
  \/ CheckActiveSpinWheels
  \/ Tick
  \/ Eliminate
  \/ JoinPlayers
  \/ Crash
  \/ Wait

\* The sweep runs every 10 s and a timer that is set fires.
FairnessFound ==
  /\ WF_vars(CheckActiveSpinWheels)
  /\ WF_vars(Tick)

SpecFound == InitFound /\ [][NextFound]_vars /\ FairnessFound

(***************************************************************************)
(* Rounds of four participants, started on request and driven by the       *)
(* scheduler's elimination timer.                                          *)
(***************************************************************************)
NextTicks ==
  \/ CreateWide \/ CreateEnd
  \/ Join \/ JoinEnd
  \/ Start \/ StartEnd
  \/ CheckActiveSpinWheels
  \/ Tick \/ TickNext \/ TickDone

SpecTicks == Init /\ [][NextTicks]_vars

(***************************************************************************)
(* Properties.                                                             *)
(***************************************************************************)
\* The amount of a stored Transaction in whole coins: entry fees and refunds
\* are integers, the amounts taken from a pool are Numbers below 2^27.
AmountOf(t) ==
  IF t.type \in {"entry_fee", "refund"} THEN t.amount
  ELSE ShiftRight(t.amount, -t.amount.e)[2]

\* C1: in every reachable state, for every round whatever its status,
\* winnerPool + adminPool + appPool equals entryFee times the number of
\* participants.
PoolsSumToFees ==
  \A id \in 1..Len(spinWheels) :
    LET w == spinWheels[id]
    IN  FAdd(FAdd(w.winnerPool, w.adminPool), w.appPool)
          = FromInt(w.entryFee * Len(w.participants))

\* C2: each committed joinSpinWheel of fee f increases adminPool by
\* floor(f * adminPct / 100), appPool by floor(f * appPct / 100) and
\* winnerPool by floor(f * winnerPct / 100) plus the remainder, so that the
\* three pools are integers after every join.
JoinSplitsInWholeCoins ==
  [][\A id \in 1..Len(spinWheels) :
       LET w == spinWheels[id]
           x == spinWheels'[id]
           adminShare  == (w.entryFee * w.adminPoolPercentage) \div 100
           appShare    == (w.entryFee * w.appPoolPercentage) \div 100
           winnerShare == w.entryFee - adminShare - appShare
       IN  Len(x.participants) = Len(w.participants) + 1 =>
             /\ x.adminPool = FAdd(w.adminPool, FromInt(adminShare))
             /\ x.appPool = FAdd(w.appPool, FromInt(appShare))
             /\ x.winnerPool = FAdd(w.winnerPool, FromInt(winnerShare))
             /\ FIsInteger(x.adminPool) /\ FIsInteger(x.appPool)
             /\ FIsInteger(x.winnerPool)]_vars

\* C3: no committed state has an account with a negative coin balance,
\* whatever the interleaving of joins, refunds, payouts and grants.
NoNegativeBalance == \A a \in Accounts : users[a].coins >= 0

\* A join that would take its caller below 0 is in flight while another
\* account has been debited.
OverdrawAttempted ==
  /\ \E c \in BagToSet(calls) : c.op = "join" /\ c.user.coins < c.wheel.entryFee
  /\ \E a \in Accounts : users[a].coins < DefaultCoins

\* C4: for every account at every time, its coin balance equals its initial
\* balance plus the sum of the amounts of all Transaction records stored
\* for that account.
BalanceMatchesLedger ==
  \A a \in Accounts :
    LET mine    == {t \in BagToSet(transactions) : t.userId = a}
        credits == [t \in {t \in mine : AmountOf(t) > 0} |->
                      CopiesIn(t, transactions) * AmountOf(t)]
        debits  == [t \in {t \in mine : AmountOf(t) < 0} |->
                      CopiesIn(t, transactions) * (-AmountOf(t))]
    IN  users[a].coins
          = DefaultCoins + BagCardinality(credits) - BagCardinality(debits)

\* C5: at most one round has status Waiting or InProgress at any instant,
\* including when several createSpinWheel calls run concurrently (only one
\* of them succeeds).
AtMostOneActive ==
  Cardinality({id \in 1..Len(spinWheels) :
                 spinWheels[id].status \in {"waiting", "in_progress"}}) <= 1

\* C6: after any interleaving of joinSpinWheel calls, an account has an
\* EntryFee record of -entryFee against a round if and only if it appears
\* exactly once in that round's participants.
EntryFeeIffParticipant ==
  \A id \in 1..Len(spinWheels), a \in Accounts :
    LET w == spinWheels[id]
        charged == \E t \in BagToSet(transactions) :
                     /\ t.type = "entry_fee" /\ t.userId = a
                     /\ t.spinWheelId = id /\ t.amount = -w.entryFee
        places == {i \in 1..Len(w.participants) : w.participants[i].userId = a}
    IN  charged <=> Cardinality(places) = 1

\* A round holds a charged participant while a join that read the round
\* before that participant was added is still in flight.
JoinOvertaken ==
  \E c \in BagToSet(calls) :
    /\ c.op = "join"
    /\ Len(spinWheels[c.id].participants) > Len(c.wheel.participants)
    /\ \E t \in BagToSet(transactions) : t.type = "entry_fee" /\ t.spinWheelId = c.id

\* C7: the number of participants of a round never exceeds maxParticipants,
\* including when joins by distinct accounts run concurrently against a
\* Waiting round with a single free slot.
WithinCapacity ==
  \A id \in 1..Len(spinWheels) :
    Len(spinWheels[id].participants) <= spinWheels[id].maxParticipants

\* A round is full while a join by another account, which read it with a
\* single free slot, is still in flight.
LastSlotContended ==
  \E c \in BagToSet(calls) :
    /\ c.op = "join"
    /\ Len(c.wheel.participants) = c.wheel.maxParticipants - 1
    /\ Len(spinWheels[c.id].participants) = spinWheels[c.id].maxParticipants
    /\ \A i \in 1..Len(spinWheels[c.id].participants) :
         spinWheels[c.id].participants[i].userId # c.userId

\* C8: of N concurrent joinSpinWheel calls by distinct eligible accounts with
\* sufficient balance against a Waiting round holding k participants,
\* min(N, maxParticipants - k) succeed: a call that ends while its account is
\* still eligible and the round still has a free slot has joined.  Every
\* account that joined is charged and every account that failed keeps its
\* balance.
ConcurrentJoinsFillRound ==
  [][\A c \in BagToSet(calls) :
       c.op = "join" /\ calls' = calls (-) SetToBag({c}) =>
         LET w == spinWheels[c.id]
             eligible == /\ w.status = "waiting"
                         /\ Len(w.participants) < w.maxParticipants
                         /\ \A i \in 1..Len(w.participants) :
                              w.participants[i].userId # c.userId
                         /\ users[c.userId] = c.user
                         /\ c.user.coins >= w.entryFee
             joined == Len(spinWheels'[c.id].participants) = Len(w.participants) + 1
         IN  /\ eligible => joined
             /\ joined => users'[c.userId].coins = users[c.userId].coins - w.entryFee
             /\ ~joined => users'[c.userId].coins = users[c.userId].coins]_vars

SequenceIsPermutation ==
  \A id \in 1..Len(spinWheels) :
    LET w == spinWheels[id]
    IN  w.status # "waiting" =>
          /\ Len(w.eliminationSequence) = Len(w.participants)
          /\ \A i \in 1..Len(w.participants) :
               Cardinality({j \in 1..Len(w.eliminationSequence) :
                              w.eliminationSequence[j] = w.participants[i].userId}) = 1

\* A start that read the round is still in flight while a join has added a
\* participant to it.
StartOvertakenByJoin ==
  \E c \in BagToSet(calls) :
    /\ c.op = "start"
    /\ spinWheels[c.id].status = "waiting"
    /\ Len(spinWheels[c.id].participants) > Len(c.wheel.participants)

\* C13: once a round is InProgress its eliminationSequence is fixed: no later
\* operation, including a second startSpinWheel racing the first, replaces
\* the sequence or resets currentEliminationIndex.
SequenceFixedOnceStarted ==
  [][\A id \in 1..Len(spinWheels) :
       LET w == spinWheels[id]
           x == spinWheels'[id]
       IN  w.status = "in_progress" =>
             /\ x.eliminationSequence = w.eliminationSequence
             /\ x.currentEliminationIndex = 0 => w.currentEliminationIndex = 0]_vars

\* A round is InProgress with an elimination made while a second start, which
\* read it Waiting, is still in flight.
SecondStartInFlight ==
  \E c \in BagToSet(calls) :
    /\ c.op = "start"
    /\ spinWheels[c.id].status = "in_progress"
    /\ spinWheels[c.id].currentEliminationIndex >= 1

\* C14: eliminateNext on an InProgress round with currentEliminationIndex =
\* i < Len(eliminationSequence) marks exactly the participant
\* eliminationSequence[i] (counted from 0) as eliminated with
\* eliminationOrder = i + 1, sets currentEliminationIndex to i + 1 and leaves
\* every other participant's elimination state unchanged.
EliminateMarksNext ==
  [][\A c \in BagToSet(calls) :
       /\ c.op = "eliminate"
       /\ calls' = calls (-) SetToBag({c})
       /\ spinWheels[c.id] = c.wheel
       => LET w == c.wheel
              i == w.currentEliminationIndex
              victim == w.eliminationSequence[i + 1]
              x == spinWheels'[c.id]
          IN  /\ x.currentEliminationIndex = i + 1
              /\ \A k \in 1..Len(w.participants) :
                   IF w.participants[k].userId = victim
                     THEN /\ x.participants[k].isEliminated
                          /\ x.participants[k].eliminationOrder = i + 1
                     ELSE x.participants[k] = w.participants[k]]_vars

\* C15: within one round no two eliminations share a position and no
\* participant is eliminated twice: every spinwheel:elimination event
\* corresponds to one increment of currentEliminationIndex in the store and
\* every increment to one event, even when scheduler ticks for the same round
\* overlap.
EliminationsMatchEvents ==
  \A id \in 1..Len(spinWheels) :
    LET w == spinWheels[id]
    IN  /\ emitted[id] = w.currentEliminationIndex
        /\ \A k, l \in 1..Len(w.participants) :
             k # l /\ w.participants[k].isEliminated /\ w.participants[l].isEliminated
               => w.participants[k].eliminationOrder # w.participants[l].eliminationOrder

\* C16: eliminateNext triggers completion in the same call as soon as exactly
\* one participant is not eliminated: when that call ends the round is
\* Completed, its winnerId is the last entry of eliminationSequence and its
\* currentEliminationIndex is the number of participants minus one.
LastEliminationCompletes ==
  [][\A c \in BagToSet(calls) :
       /\ c.op = "eliminate"
       /\ calls' = calls (-) SetToBag({c})
       /\ spinWheels[c.id] = c.wheel
       /\ RemainingCount(Eliminated(c.wheel)) = 1
       => LET w == c.wheel
              x == spinWheels'[c.id]
          IN  /\ x.status = "completed"
              /\ x.winnerId = w.eliminationSequence[Len(w.eliminationSequence)]
              /\ x.currentEliminationIndex = Len(w.participants) - 1]_vars

\* C17: completion is atomic and pays out the pools: when the eliminateNext
\* that leaves one participant ends, the winner's balance has increased by
\* winnerPool with a PrizeWin record, the admin's balance by adminPool with
\* an AdminCommission record, an AppFee record for appPool is stored, status
\* is Completed with winnerId set and the final elimination is stored.
CompletionPaysOut ==
  [][\A c \in BagToSet(calls) :
       /\ c.op = "eliminate"
       /\ calls' = calls (-) SetToBag({c})
       /\ spinWheels[c.id] = c.wheel
       /\ RemainingCount(Eliminated(c.wheel)) = 1
       => LET w == Eliminated(c.wheel)
              x == spinWheels'[c.id]
              winnerId == CHOOSE a \in Accounts :
                            \E k \in 1..Len(w.participants) :
                              /\ w.participants[k].userId = a
                              /\ ~w.participants[k].isEliminated
              stored(type, a, amount) ==
                \E t \in BagToSet(transactions') :
                  /\ t.type = type /\ t.userId = a
                  /\ t.spinWheelId = c.id /\ t.amount = amount
          IN  /\ x.status = "completed"
              /\ x.winnerId = winnerId
              /\ x.participants = w.participants
              /\ FromInt(users'[winnerId].coins)
                   = FAdd(FromInt(users[winnerId].coins), w.winnerPool)
              /\ FromInt(users'[w.adminId].coins)
                   = FAdd(FromInt(users[w.adminId].coins), w.adminPool)
              /\ stored("prize_win", winnerId, w.winnerPool)
              /\ stored("admin_commission", w.adminId, w.adminPool)
              /\ stored("app_fee", w.adminId, w.appPool)]_vars

\* C18: for a round that is joined and then completed without an abort, the
\* amounts of all Transaction records of the round sum to -appPool: the
\* amounts of the records the completion saves, plus appPool, make up the
\* entry fees stored for the round.
CompletedRoundSumsToAppFee ==
  \A c \in BagToSet(calls) :
    c.op = "eliminate" /\ spinWheels[c.id] = c.wheel
      /\ RemainingCount(Eliminated(c.wheel)) = 1
    => LET w == Eliminated(c.wheel)
           fees == [t \in {t \in BagToSet(transactions) :
                             t.type = "entry_fee" /\ t.spinWheelId = c.id} |->
                      CopiesIn(t, transactions) * (-t.amount)]
           prize == PrizeTransaction(w, c.id, "", users[w.adminId]).amount
           commission == CommissionTransaction(w, c.id, users[w.adminId]).amount
           appFee == AppFeeTransaction(w, c.id).amount
       IN  FAdd(FAdd(FAdd(prize, commission), appFee), w.appPool)
             = FromInt(BagCardinality(fees))

\* C19: abortSpinWheel on a Waiting round atomically credits every
\* participant its entryFeePaid with a Refund record, zeroes the three pools
\* and sets status = Aborted.
AbortRefundsAll ==
  [][\A c \in BagToSet(calls) :
       /\ c.op = "abort"
       /\ calls' = calls (-) SetToBag({c})
       /\ spinWheels[c.id] = c.wheel
       => LET w == c.wheel
              x == spinWheels'[c.id]
          IN  /\ x.status = "aborted"
              /\ x.winnerPool = FZero /\ x.adminPool = FZero /\ x.appPool = FZero
              /\ \A k \in 1..Len(w.participants) :
                   LET p == w.participants[k]
                   IN  /\ users'[p.userId].coins = users[p.userId].coins + p.entryFeePaid
                       /\ \E t \in BagToSet(transactions') :
                            /\ t.type = "refund" /\ t.userId = p.userId
                            /\ t.spinWheelId = c.id /\ t.amount = p.entryFeePaid]_vars

AbortOfStartedRoundRejected ==
  /\ [][\A id \in 1..Len(spinWheels) :
          spinWheels[id].status = "in_progress" /\ AbortBegin(id)
            => /\ last' = Outcome("abort", "SpinWheelError")
               /\ UNCHANGED <<spinWheels, users, transactions>>]_vars
  /\ \A id \in 1..MaxSpinWheels :
       (/\ Exists(id)
        /\ spinWheels[id].status = "in_progress"
        /\ last = Outcome("abort", "SpinWheelError"))
         ~> (Exists(id) /\ spinWheels[id].status = "completed")

\* C25: under fair scheduling of sweeps and ticks every created round
\* eventually is Completed or Aborted.
RoundsEventuallyEnd ==
  \A id \in 1..MaxSpinWheels :
    Exists(id) ~> (Exists(id) /\ spinWheels[id].status \in {"completed", "aborted"})

\* C22: when a Waiting round's autoStartAt is reached the scheduler starts it
\* if it has at least minParticipants participants and otherwise aborts it
\* (participants refunded, pools zeroed, status Aborted): when the service
\* call of autoStartSpinWheel ends on the round as it read it, the round is
\* InProgress if it had minParticipants, and Aborted and refunded if not.
AutoStartStartsOrAborts ==
  [][\A c \in BagToSet(calls) :
       /\ ByScheduler(c) /\ c.op \in {"abort", "start"}
       /\ calls' = calls (-) SetToBag({c})
       /\ crashes' = crashes
       /\ spinWheels[c.id] = c.wheel
       => LET w == c.wheel
              x == spinWheels'[c.id]
          IN  /\ w.autoStartAt <= now
              /\ IF Len(w.participants) >= w.minParticipants
                   THEN x.status = "in_progress"
                   ELSE /\ x.status = "aborted"
                        /\ x.winnerPool = FZero /\ x.adminPool = FZero
                        /\ x.appPool = FZero
                        /\ \A k \in 1..Len(w.participants) :
                             users'[w.participants[k].userId].coins
                               = users[w.participants[k].userId].coins
                                   + w.participants[k].entryFeePaid]_vars

\* The remainingSeconds of the countdown events of a wheel, in the order
\* they were emitted.
CountdownOf(id) ==
  LET cs == SelectSeq(events, LAMBDA e : e.id = id /\ e.type = "countdown")
  IN  [i \in 1..Len(cs) |-> cs[i].order]

\* C23: for every Waiting round that reaches its autoStartAt, a countdown
\* event has been emitted for each of the last seconds before autoStartAt,
\* once per second with decreasing remainingSeconds, however far in the
\* future autoStartAt was when the round was created or scheduled.
CountdownBeforeAutoStart ==
  \A id \in 1..Len(spinWheels) :
    now >= spinWheels[id].autoStartAt =>
      LET cs == CountdownOf(id)
          n == CountdownWindow \div CountdownPeriod - 1
      IN  /\ Len(cs) = n
          /\ \A i \in 1..n : cs[i] = n + 1 - i

\* C24: after a crash while a round is InProgress, initialize's sweep can
\* re-attach an elimination timer to it, and every elimination made after
\* the restart resumes from the stored currentEliminationIndex: it marks
\* the participant at that index, who was not eliminated before, leaves the
\* others as they were and moves the index on by one.
ResumesAfterCrash ==
  /\ [](\A id \in interrupted :
            spinWheels[id].status = "in_progress" /\ id \notin eliminationTimers
              => ENABLED CheckActiveSpinWheels)
  /\ [][\A c \in BagToSet(calls) :
            /\ ByScheduler(c) /\ c.op = "eliminate" /\ c.id \in interrupted
            /\ calls' = calls (-) SetToBag({c})
            /\ emitted' # emitted
            => LET w == spinWheels[c.id]
                   x == spinWheels'[c.id]
                   i == w.currentEliminationIndex
               IN  /\ i < Len(w.eliminationSequence)
                   /\ x.currentEliminationIndex = i + 1
                   /\ \A k \in 1..Len(w.participants) :
                        IF w.participants[k].userId = w.eliminationSequence[i + 1]
                          THEN /\ ~w.participants[k].isEliminated
                               /\ x.participants[k].isEliminated
                          ELSE x.participants[k] = w.participants[k]]_vars

\* What the event e announces is in the stored wheel x.
Announced(e, x) ==
  IF e.type = "started"
    THEN x.status = "in_progress" /\ x.eliminationSequence = e.sequence
  ELSE IF e.type = "aborted" THEN x.status = "aborted"
  ELSE IF e.type = "elimination"
    THEN \E k \in 1..Len(x.participants) :
           /\ x.participants[k].userId = e.userId
           /\ x.participants[k].isEliminated
           /\ x.participants[k].eliminationOrder = e.order
  ELSE IF e.type \in {"completed", "won"}
    THEN x.status = "completed" /\ x.winnerId = e.userId
  ELSE TRUE

EventsInCommitOrder ==
  \A id \in 1..Len(spinWheels) :
    LET es == EventsOf(id)
    IN  \A j \in 1..Len(es) :
          /\ es[j].type = "elimination" =>
               /\ \E i \in 1..(j - 1) : es[i].type = "started"
               /\ \A i \in 1..(j - 1) :
                    /\ es[i].type = "elimination" => es[i].order < es[j].order
                    /\ es[i].type # "completed"
          /\ es[j].type = "completed" =>
               \E i \in 1..(j - 1) : es[i].type = "elimination"

\* C28: every committed start, whether made by an admin through the start
\* command or by the scheduler's auto-start, is followed by a started event
\* carrying the round's elimination sequence: a round that is InProgress has
\* one.
StartedRoundsAnnounced ==
  \A id \in 1..Len(spinWheels) :
    spinWheels[id].status = "in_progress" =>
      \E i \in 1..Len(events) :
        /\ events[i].type = "started" /\ events[i].id = id
        /\ events[i].sequence = spinWheels[id].eliminationSequence

\* C29: createSpinWheel called while a round in Waiting or InProgress exists
\* fails with the conflict error and inserts no round; a createSpinWheel
\* that succeeds inserts one round, Waiting, with the three pools 0, no
\* participants and autoStartAt = the time of creation + the auto-start
\* delay.
CreateConflictsOrInserts ==
  [][/\ \A a \in Admins, f \in EntryFees, m \in MaxParticipantsChoices :
          ((\E id \in 1..Len(spinWheels) :
              spinWheels[id].status \in {"waiting", "in_progress"})
           /\ CreateRead(a, f, m))
            => /\ last' = Outcome("create", "ConflictError")
               /\ UNCHANGED <<spinWheels, calls>>
     /\ Len(spinWheels') # Len(spinWheels) =>
          LET x == spinWheels'[Len(spinWheels')]
          IN  /\ Len(spinWheels') = Len(spinWheels) + 1
              /\ SubSeq(spinWheels', 1, Len(spinWheels)) = spinWheels
              /\ last' = Outcome("create", "ok")
              /\ x.status = "waiting"
              /\ x.winnerPool = FZero /\ x.adminPool = FZero /\ x.appPool = FZero
              /\ x.participants = <<>>
              /\ x.autoStartAt = now + AutoStartTime]_vars

\* A round was created after the clock had advanced, its autoStartAt that
\* much later, and a create called while it waits has been refused.
ConflictWhileLaterRoundWaits ==
  /\ last = Outcome("create", "ConflictError")
  /\ Len(spinWheels) = 1
  /\ spinWheels[1].status = "waiting"
  /\ now > 0
  /\ spinWheels[1].autoStartAt = now + AutoStartTime

\* C30: joinSpinWheel by an account whose balance is below the round's
\* entryFee fails with the insufficient-funds error and commits nothing: at
\* its balance check the call is refused and the balances, participants,
\* pools and transaction records are unchanged.
InsufficientFundsRejected ==
  [][\A id \in 1..Len(spinWheels), u \in Accounts :
       LET w == spinWheels[id]
       IN  (/\ IsWaiting(w) /\ w.adminId # u /\ ~IsParticipant(w, u) /\ ~IsFull(w)
            /\ users[u].coins < w.entryFee
            /\ JoinBegin(id, u))
           => /\ last' = Outcome("join", "InsufficientFundsError")
              /\ UNCHANGED <<spinWheels, users, transactions, calls>>]_vars

RecordsCarryCommittedBalances ==
  /\ [][\A t \in BagToSet(transactions') :
          (/\ CopiesIn(t, transactions') > CopiesIn(t, transactions)
           /\ t.type \in {"entry_fee", "refund", "prize_win", "admin_commission"})
          => /\ t.balanceBefore = users[t.userId].coins
             /\ t.balanceAfter = t.balanceBefore + AmountOf(t)
             /\ t.balanceAfter = users'[t.userId].coins]_vars
  /\ [](\A c \in BagToSet(calls) :
          c.op = "abort" =>
            \A k \in 1..Len(c.wheel.participants) :
              LET p == c.wheel.participants[k]
                  t == RefundTransaction(p, c.id, users[p.userId])
              IN  /\ t.balanceBefore = JsNum(users[p.userId].coins)
                  /\ t.balanceAfter = JsNum(users[p.userId].coins + t.amount))

TicksInFlight(id) ==
  {c \in BagToSet(calls) : ByScheduler(c) /\ c.op \in {"tick", "eliminate"} /\ c.id = id}

SchedulerCalls(id) ==
  LET cs == {c \in BagToSet(calls) : ByScheduler(c) /\ c.id = id}
  IN  [c \in cs |-> CopiesIn(c, calls)]

\* C36: at any instant at most one scheduler execution drives a given round:
\* no two eliminateNext or auto-start executions for the same round are in
\* flight at the same time, whether they come from the sweep, the auto-start
\* timer or the elimination ticks.
OneSchedulerExecutionPerRound ==
  \A id \in 1..Len(spinWheels) : BagCardinality(SchedulerCalls(id)) <= 1

\* C37: in every InProgress or Completed round the eliminated participants
\* are exactly the first currentEliminationIndex entries of
\* eliminationSequence, the k-th of those entries has eliminationOrder = k,
\* and currentEliminationIndex never exceeds the length of
\* eliminationSequence.
EliminatedArePrefixOfSequence ==
  \A id \in 1..Len(spinWheels) :
    LET w == spinWheels[id]
    IN  w.status \in {"in_progress", "completed"} =>
          /\ w.currentEliminationIndex <= Len(w.eliminationSequence)
          /\ \A i \in 1..Len(w.participants) :
               LET p == w.participants[i]
               IN  p.isEliminated <=>
                     \E k \in 1..w.currentEliminationIndex :
                       /\ k <= Len(w.eliminationSequence)
                       /\ w.eliminationSequence[k] = p.userId
                       /\ p.eliminationOrder = k

\* C38: each elimination event names the participant and position that the
\* eliminateNext call of that same tick eliminated: the round the tick read
\* before the call and the round read inside eliminateNext agree on
\* currentEliminationIndex, even when another tick touches the round in
\* between.
EventNamesTheEliminated ==
  [][\A c \in BagToSet(calls) :
       (/\ ByScheduler(c) /\ c.op = "eliminate"
        /\ calls' = calls (-) SetToBag({c})
        /\ Len(events') > Len(events))
       => LET e == events'[Len(events) + 1]
              i == c.wheel.currentEliminationIndex
          IN  /\ c.seen.currentEliminationIndex = i
              /\ e.type = "elimination"
              /\ e.userId = c.wheel.eliminationSequence[i + 1]
              /\ e.order = i + 1]_vars

\* C39: no balance update is lost: an addCoinsToUser that ends adds its
\* amount to the balance committed at that moment, so that when it
\* interleaves with the account's joinSpinWheel debit the final balance
\* reflects both changes.
NoLostBalanceUpdate ==
  [][\A c \in BagToSet(calls) :
       (c.op = "grant" /\ calls' = calls (-) SetToBag({c}))
       => users'[c.userId].coins = users[c.userId].coins + c.amount]_vars

(***************************************************************************)
(* Exact sums of Numbers.  A pool is kept as a binary64 Number; its exact  *)
(* value times 2^FractionBits is an integer, kept here in three parts of   *)
(* LowBits bits each, the last part first.  The pools that occur lie       *)
(* between 2^-4 and 2^12, so the shift is between 0 and LowBits - 1.       *)
(***************************************************************************)
FractionBits == 60

Exact(x) ==
  IF x = FZero THEN <<0, 0, 0>>
  ELSE LET r == x.e + FractionBits
           k == LowBits - r
       IN  <<(x.lo % 2^k) * 2^r,
             (x.hi % 2^k) * 2^r + x.lo \div 2^k,
             x.hi \div 2^k>>

ExactInt(n) == <<0, 0, n * 2^(FractionBits - 2 * LowBits)>>

ExactAdd(a, b) ==
  LET s0 == a[1] + b[1]
      s1 == a[2] + b[2] + s0 \div 2^LowBits
  IN  <<s0 % 2^LowBits, s1 % 2^LowBits, a[3] + b[3] + s1 \div 2^LowBits>>

\* The coins a round holds: its three pools while it is Waiting or
\* InProgress, its appPool once it is Completed.
Held(w) ==
  IF w.status \in {"waiting", "in_progress"}
    THEN ExactAdd(ExactAdd(Exact(w.winnerPool), Exact(w.adminPool)), Exact(w.appPool))
  ELSE IF w.status = "completed" THEN Exact(w.appPool)
  ELSE ExactInt(0)

RECURSIVE HeldFrom(_)
HeldFrom(i) ==
  IF i > Len(spinWheels) THEN ExactInt(0)
  ELSE ExactAdd(Held(spinWheels[i]), HeldFrom(i + 1))

RECURSIVE CoinsOf(_)
CoinsOf(accounts) ==
  IF accounts = {} THEN 0
  ELSE LET a == CHOOSE a \in accounts : TRUE
       IN  users[a].coins + CoinsOf(accounts \ {a})

\* C40: coins are conserved by the game: in every committed state, absent
\* admin coin grants, the sum of all account balances plus the three pools
\* of the Waiting or InProgress round plus the appPool of every Completed
\* round equals the sum of the accounts' initial balances.
CoinsConserved ==
  ExactAdd(ExactInt(CoinsOf(Accounts)), HeldFrom(1))
    = ExactInt(Cardinality(Accounts) * DefaultCoins)
====
